---- MODULE Spec2Model ----
(***************************************************************************)
(* A model of main.py, the Angular to C# call path mapper: the three file  *)
(* scans of CodeAnalyzer.analyze that fill the entity tables, the mapping  *)
(* of HTTP calls to C# methods, and the construction of the call paths.    *)
(* Spec is a run of analyze(); MainSpec is a run of main(), from the       *)
(* checks of the two roots to the status it returns.                       *)
(*                                                                         *)
(* Strings are sequences of tokens.  URLs, HTTP verbs and C# names are     *)
(* spelled character by character, because the code splits them, changes   *)
(* their case and searches them for substrings.  TypeScript identifiers    *)
(* are only ever compared and concatenated, so each is a single token.     *)
(***************************************************************************)
EXTENDS Integers, Sequences, FiniteSets, TLC

(***************************************************************************)
(* Bounds of the model.                                                    *)
(***************************************************************************)
\* the largest number of source files below the two root directories
MaxFiles == 4
\* the largest value given for --max-depth
MaxDepth == 1

(***************************************************************************)
(* Python strings.                                                         *)
(***************************************************************************)
UpperLetters ==
  <<"A","B","C","D","E","F","G","H","I","J","K","L","M",
    "N","O","P","Q","R","S","T","U","V","W","X","Y","Z">>

LowerLetters ==
  <<"a","b","c","d","e","f","g","h","i","j","k","l","m",
    "n","o","p","q","r","s","t","u","v","w","x","y","z">>

\* the empty string; Python's None where the code only tests truthiness
None == <<>>

LowerChar(c) ==
  IF \E i \in 1..26 : UpperLetters[i] = c
  THEN LowerLetters[CHOOSE i \in 1..26 : UpperLetters[i] = c]
  ELSE c

UpperChar(c) ==
  IF \E i \in 1..26 : LowerLetters[i] = c
  THEN UpperLetters[CHOOSE i \in 1..26 : LowerLetters[i] = c]
  ELSE c

\* str.lower()
Lower(s) == [i \in 1..Len(s) |-> LowerChar(s[i])]

\* str.upper()
Upper(s) == [i \in 1..Len(s) |-> UpperChar(s[i])]

\* sub in s
Contains(sub, s) ==
  \E i \in 0..(Len(s) - Len(sub)) : SubSeq(s, i + 1, i + Len(sub)) = sub

\* s.startswith(c), c one character
StartsWith(s, c) == Len(s) > 0 /\ s[1] = c

HasSep(s, sep) == \E i \in 1..Len(s) : s[i] = sep

FirstSep(s, sep) ==
  CHOOSE i \in 1..Len(s) : s[i] = sep /\ \A j \in 1..(i - 1) : s[j] # sep

\* s.split(sep)
RECURSIVE Split(_, _)
Split(s, sep) ==
  IF ~HasSep(s, sep) THEN <<s>>
  ELSE <<SubSeq(s, 1, FirstSep(s, sep) - 1)>>
       \o Split(SubSeq(s, FirstSep(s, sep) + 1, Len(s)), sep)

\* s.split(sep, 1)
SplitOnce(s, sep) ==
  IF ~HasSep(s, sep) THEN <<s>>
  ELSE <<SubSeq(s, 1, FirstSep(s, sep) - 1),
         SubSeq(s, FirstSep(s, sep) + 1, Len(s))>>

\* the concatenation of a sequence of sequences
RECURSIVE Flatten(_)
Flatten(ss) == IF ss = <<>> THEN <<>> ELSE Head(ss) \o Flatten(Tail(ss))

(***************************************************************************)
(* Python dicts: the entries in insertion order.  Assigning to a key that  *)
(* is present keeps its place and replaces its value.                      *)
(***************************************************************************)
DictKeys(d) == {d[i].k : i \in 1..Len(d)}

DictHas(d, k) == \E i \in 1..Len(d) : d[i].k = k

DictGet(d, k) == d[CHOOSE i \in 1..Len(d) : d[i].k = k].v

DictKeepFirst(d, k, v) ==
  IF DictHas(d, k) THEN d ELSE Append(d, [k |-> k, v |-> v])

\* d[k] = v
DictSet(d, k, v) ==
  IF DictHas(d, k)
  THEN [i \in 1..Len(d) |-> IF d[i].k = k THEN [k |-> k, v |-> v] ELSE d[i]]
  ELSE Append(d, [k |-> k, v |-> v])

\* d[k].append(x) on a defaultdict(list)
DictAppend(d, k, x) ==
  IF DictHas(d, k)
  THEN [i \in 1..Len(d) |->
          IF d[i].k = k THEN [k |-> k, v |-> Append(d[i].v, x)] ELSE d[i]]
  ELSE Append(d, [k |-> k, v |-> <<x>>])

(***************************************************************************)
(* Source files.  A file is described by what the code's regular           *)
(* expressions find in it, line by line.                                   *)
(***************************************************************************)
\* a TypeScript identifier, one token
N(x) == <<x>>

\* the injected types that end in 'Service'
ServiceNamed == {N("OrderService")}

\* service_type.endswith('Service')
EndsWithService(t) == t \in ServiceNamed

\* one 'var.method(' call site of a component line; this: written 'this.var.method('
CallSite(var, method, this) == [var |-> N(var), method |-> N(method), this |-> this]

\* one "http.verb('url'" call site of a service line; this: written 'this.http.verb('
HttpSite(verb, url, this) == [verb |-> verb, url |-> url, this |-> this]

\* one declaration 'var: type' of a constructor, or 'var = inject(type)'
Inject(var, type) == [var |-> N(var), type |-> N(type)]

ComponentFile(path, test, readable, name, ctor, props, lines) ==
  [kind |-> "component", path |-> path, test |-> test, readable |-> readable,
   name |-> N(name), template |-> "None", ctor |-> ctor, props |-> props,
   lines |-> lines]

ServiceFile(path, test, readable, name, lines) ==
  [kind |-> "service", path |-> path, test |-> test, readable |-> readable,
   name |-> N(name), methods |-> <<>>, lines |-> lines]

CsharpFile(path, test, readable, lines) ==
  [kind |-> "csharp", path |-> path, test |-> test, readable |-> readable,
   lines |-> lines]

\* a line of a C# file: a class declaration, a method declaration, the braces on it
CsLine(cls, meth, opens, closes) ==
  [skip |-> FALSE, cls |-> cls, meth |-> meth, opens |-> opens,
   closes |-> closes, kw |-> FALSE, ret |-> "IActionResult", params |-> <<>>]

\* an empty line or a comment
CsSkipLine ==
  [skip |-> TRUE, cls |-> None, meth |-> None, opens |-> 0, closes |-> 0,
   kw |-> FALSE, ret |-> "", params |-> <<>>]

wOrders == <<"o","r","d","e","r","s">>
wController == <<"C","o","n","t","r","o","l","l","e","r">>
UrlOrders == <<"/">> \o wOrders
UrlOrderById == UrlOrders \o <<"/","{","i","d","}">>
VerbPost == <<"p","o","s","t">>
VerbGet == <<"g","e","t">>
OrdersController == <<"O","r","d","e","r","s">> \o wController
ArchiveController == <<"A","r","c","h","i","v","e">> \o wController
Create == <<"C","r","e","a","t","e">>
GetOrders == <<"G","e","t","O","r","d","e","r","s">>
ListOrders == <<"L","i","s","t","O","r","d","e","r","s">>
PurgeOrders == <<"P","u","r","g","e","O","r","d","e","r","s">>
OrderRepository == <<"O","r","d","e","r","R","e","p","o","s","i","t","o","r","y">>
SaveOrders == <<"S","a","v","e","O","r","d","e","r","s">>

\* constructor(private orderService: OrderService) {}
\* save() { this.orderService.submit(this.order); }
OrderScreenFile ==
  ComponentFile("app/order-screen.component.ts", FALSE, TRUE, "OrderScreen",
    <<Inject("orderService", "OrderService")>>, <<>>,
    << <<>>, <<>>, <<CallSite("orderService", "submit", TRUE)>> >>)

\* a second declaration of OrderScreen: orderService.cancel(id) in a callback
OrderScreenLegacyFile ==
  ComponentFile("legacy/order-screen.component.ts", FALSE, TRUE, "OrderScreen",
    <<Inject("orderService", "OrderService")>>, <<>>,
    << <<CallSite("orderService", "cancel", FALSE)>> >>)

\* b = inject(B);  this.b.run()
AFile ==
  ComponentFile("app/a.component.ts", FALSE, TRUE, "A",
    <<>>, <<Inject("b", "B")>>, << <<CallSite("b", "run", TRUE)>> >>)

\* a = inject(A);  this.a.run()
BFile ==
  ComponentFile("app/b.component.ts", FALSE, TRUE, "B",
    <<>>, <<Inject("a", "A")>>, << <<CallSite("a", "run", TRUE)>> >>)

\* a component below a directory whose name holds 'test'
ATestingFile ==
  ComponentFile("testing/a.component.ts", TRUE, TRUE, "A",
    <<Inject("orderService", "OrderService")>>, <<>>,
    << <<CallSite("orderService", "submit", TRUE)>> >>)

\* submit(o) { return this.http.post('/orders', o); }
OrderServiceFile ==
  ServiceFile("app/order.service.ts", FALSE, TRUE, "OrderService",
    << <<>>, <<HttpSite(VerbPost, UrlOrders, TRUE)>> >>)

\* a second declaration of OrderService: http.get('/orders/{id}')
OrderServiceLegacyFile ==
  ServiceFile("legacy/order.service.ts", FALSE, TRUE, "OrderService",
    << <<HttpSite(VerbGet, UrlOrderById, FALSE)>> >>)

\* a service named B that issues no HTTP call
BServiceFile ==
  ServiceFile("app/b.service.ts", FALSE, TRUE, "B", << <<>> >>)

\* public class OrdersController {
\*   public IActionResult Create(Order o) { return Ok(); }
\* }
OrdersControllerFile ==
  CsharpFile("Api/OrdersController.cs", FALSE, TRUE,
    <<CsLine(OrdersController, None, 1, 0),
      CsLine(None, Create, 1, 1),
      CsLine(None, None, 0, 1)>>)

\* the other part of the partial class OrdersController
OrdersQueriesFile ==
  CsharpFile("Api/OrdersController.Queries.cs", FALSE, TRUE,
    <<CsSkipLine,
      CsLine(OrdersController, None, 1, 0),
      CsLine(None, GetOrders, 1, 1),
      CsLine(None, ListOrders, 1, 1),
      CsLine(None, None, 0, 1)>>)

ArchiveControllerFile ==
  CsharpFile("Api/ArchiveController.cs", FALSE, TRUE,
    <<CsLine(ArchiveController, None, 1, 0),
      CsLine(None, PurgeOrders, 1, 1),
      CsLine(None, None, 0, 1)>>)

\* a class that is no controller
OrderRepositoryFile ==
  CsharpFile("Data/OrderRepository.cs", FALSE, TRUE,
    <<CsLine(OrderRepository, None, 1, 0),
      CsLine(None, SaveOrders, 1, 1),
      CsLine(None, None, 0, 1)>>)

\* a C# file that is not valid UTF-8
BinaryCsFile ==
  CsharpFile("Api/Resources.cs", FALSE, FALSE, <<>>)

\* the files a project tree is made of
Pool ==
  {OrderScreenFile, OrderScreenLegacyFile, AFile, BFile, ATestingFile,
   OrderServiceFile, OrderServiceLegacyFile, BServiceFile,
   OrdersControllerFile, OrdersQueriesFile, ArchiveControllerFile,
   OrderRepositoryFile, BinaryCsFile}

\* a component the process may not read:
\* constructor(private orderService: OrderService) {}
\* this.orderService.submit(this.order);
LockedComponentFile ==
  ComponentFile("app/locked.component.ts", FALSE, FALSE, "Locked",
    <<Inject("orderService", "OrderService")>>, <<>>,
    << <<CallSite("orderService", "submit", TRUE)>> >>)

\* a service whose file is not valid UTF-8
LockedServiceFile ==
  ServiceFile("app/locked.service.ts", FALSE, FALSE, "LockedService",
    << <<HttpSite(VerbGet, UrlOrders, TRUE)>> >>)

\* constructor(private orderService: OrderService) {}, and no call of it
IdleFile ==
  ComponentFile("app/idle.component.ts", FALSE, TRUE, "Idle",
    <<Inject("orderService", "OrderService")>>, <<>>, << <<>>, <<>> >>)

\* ghost = inject(Ghost); constructor(private orderService: OrderService) {}
\* this.ghost.run();
\* this.orderService.submit(this.order);
CheckoutFile ==
  ComponentFile("app/checkout.component.ts", FALSE, TRUE, "Checkout",
    <<Inject("orderService", "OrderService")>>, <<Inject("ghost", "Ghost")>>,
    << <<CallSite("ghost", "run", TRUE)>>,
       <<CallSite("orderService", "submit", TRUE)>> >>)

\* public class ArchiveController
\* {
\*   public IActionResult PurgeOrders() { return Ok(); }
\* }
AllmanControllerFile ==
  CsharpFile("Api/Allman/ArchiveController.cs", FALSE, TRUE,
    <<CsLine(ArchiveController, None, 0, 0),
      CsLine(None, None, 1, 0),
      CsLine(None, PurgeOrders, 1, 1),
      CsLine(None, None, 0, 1)>>)

\* the files the project trees of a run of main() are made of
MainPool ==
  {OrderScreenFile, CheckoutFile, IdleFile, LockedComponentFile, ATestingFile,
   OrderServiceFile, LockedServiceFile,
   OrdersQueriesFile, AllmanControllerFile, BinaryCsFile}

(***************************************************************************)
(* Extraction of the entities of one file.                                 *)
(***************************************************************************)
\* _extract_component_name, _extract_service_name: the class the file exports
ExtractName(f) == f.name

\* _find_template_path
FindTemplatePath(f) == f.template

RECURSIVE AddInjected(_, _)
AddInjected(services, decls) ==
  IF decls = <<>> THEN services
  ELSE AddInjected(DictSet(services, Head(decls).var, Head(decls).type),
                   Tail(decls))

\* _find_injected_services: variable -> type, constructor parameters first
FindInjectedServices(f) ==
  LET IsService(d) == EndsWithService(d.type)
  IN  AddInjected(AddInjected(<<>>, SelectSeq(f.ctor, IsService)), f.props)

ServiceCall(service_name, method_name, file_path, line_number, call_type) ==
  [service_name |-> service_name, method_name |-> method_name,
   file_path |-> file_path, line_number |-> line_number,
   call_type |-> call_type]

\* the call sites of a line that pattern p finds for service_var:
\* pattern 1 is \bvar\.(\w+)\s*\( and pattern 2 is this\.var\.(\w+)\s*\(
ServiceCallMatches(line, service_var, p) ==
  LET Hit(site) == site.var = service_var /\ (p = 1 \/ site.this)
  IN  SelectSeq(line, Hit)

\* the call_type _extract_service_calls gives its records
DirectTag == "direct"

\* _extract_service_calls
ExtractServiceCalls(f) ==
  LET injected == FindInjectedServices(f)
      OfPattern(line_num, e, p) ==
        LET ms == ServiceCallMatches(f.lines[line_num], e.k, p)
        IN  [m \in 1..Len(ms) |->
               ServiceCall(e.v, ms[m].method, f.path, line_num, DirectTag)]
      OfService(line_num, e) ==
        OfPattern(line_num, e, 1) \o OfPattern(line_num, e, 2)
      OfLine(line_num) ==
        Flatten([i \in 1..Len(injected) |-> OfService(line_num, injected[i])])
  IN  Flatten([line_num \in 1..Len(f.lines) |-> OfLine(line_num)])

\* _extract_service_methods
ExtractServiceMethods(f) == f.methods

\* the call sites of a line that pattern p finds: pattern 1 is
\* this\.http\.(get|...)\s*\(\s*['"`]... and pattern 2 is http\.(get|...)...
HttpCallMatches(line, p) ==
  LET Hit(site) == p = 2 \/ site.this
  IN  SelectSeq(line, Hit)

\* _extract_http_calls
ExtractHttpCalls(f) ==
  LET OfPattern(line_num, p) ==
        LET ms == HttpCallMatches(f.lines[line_num], p)
        IN  [m \in 1..Len(ms) |->
               [method |-> Upper(ms[m].verb), url |-> ms[m].url,
                line_number |-> line_num]]
      OfLine(line_num) == OfPattern(line_num, 1) \o OfPattern(line_num, 2)
  IN  Flatten([line_num \in 1..Len(f.lines) |-> OfLine(line_num)])

\* current_class = None
NoClass == [name |-> None, line_number |-> 0, methods |-> <<>>]

\* the names the method pattern finds that are no methods
ControlKeywords ==
  {<<"i","f">>, <<"f","o","r">>, <<"w","h","i","l","e">>,
   <<"s","w","i","t","c","h">>}

\* the loop of _extract_csharp_classes from line i on
RECURSIVE CsharpClassesFrom(_, _, _, _, _, _)
CsharpClassesFrom(lines, i, classes, current_class, brace_count, in_class) ==
  IF i > Len(lines) THEN classes
  ELSE
    LET ln == lines[i] IN
    IF ln.skip
    THEN CsharpClassesFrom(lines, i + 1, classes, current_class, brace_count,
                           in_class)
    ELSE
      LET declares == ln.cls # None /\ ~in_class
          class1 == IF declares
                    THEN [name |-> ln.cls, line_number |-> i, methods |-> <<>>]
                    ELSE current_class
          in1 == in_class \/ declares
          brace1 == (IF declares THEN 0 ELSE brace_count) + ln.opens - ln.closes
          keyword == ln.cls # None \/ ln.kw
          isMethod == /\ in1
                      /\ ln.meth # None
                      /\ ~keyword
                      /\ ln.meth # class1.name
                      /\ ln.meth \notin ControlKeywords
          class2 == IF isMethod
                    THEN [class1 EXCEPT !.methods =
                            Append(@, [name |-> ln.meth, return_type |-> ln.ret,
                                       parameters |-> ln.params,
                                       line_number |-> i])]
                    ELSE class1
          ends == in1 /\ brace1 <= 0
      IN  CsharpClassesFrom(lines, i + 1,
                            IF ends THEN Append(classes, class2) ELSE classes,
                            IF ends THEN NoClass ELSE class2,
                            brace1,
                            in1 /\ ~ends)

\* _extract_csharp_classes
ExtractCsharpClasses(f) == CsharpClassesFrom(f.lines, 1, <<>>, NoClass, 0, FALSE)

CSharpMethod(class_name, method, file_path) ==
  [class_name |-> class_name, method_name |-> method.name,
   file_path |-> file_path, line_number |-> method.line_number,
   parameters |-> method.parameters, return_type |-> method.return_type]

\* the CSharpMethod records of a file, in the order the code appends them
CsharpMethodsOf(f) ==
  LET classes == ExtractCsharpClasses(f)
  IN  Flatten([c \in 1..Len(classes) |->
                 [m \in 1..Len(classes[c].methods) |->
                    CSharpMethod(classes[c].name, classes[c].methods[m], f.path)]])

AngularScreen(f) ==
  [component_name |-> ExtractName(f), file_path |-> f.path,
   template_path |-> FindTemplatePath(f),
   service_calls |-> ExtractServiceCalls(f), indirect_calls |-> <<>>]

ServiceInfo(f) ==
  [file_path |-> f.path, methods |-> ExtractServiceMethods(f),
   http_calls |-> ExtractHttpCalls(f)]

\* not self.include_tests and ('.spec.' in str(file) or 'test' in ...)
Skipped(f, include_tests) == ~include_tests /\ f.test

\* one iteration of the loop of _analyze_angular_components
ComponentsAfter(angular_components, f, include_tests) ==
  IF Skipped(f, include_tests) \/ ~f.readable THEN angular_components
  ELSE DictSet(angular_components, ExtractName(f), AngularScreen(f))

\* one iteration of the loop of _analyze_angular_services
ServicesAfter(angular_services, f, include_tests) ==
  IF Skipped(f, include_tests) \/ ~f.readable THEN angular_services
  ELSE DictSet(angular_services, ExtractName(f), ServiceInfo(f))

RECURSIVE AppendMethods(_, _)
AppendMethods(csharp_methods, ms) ==
  IF ms = <<>> THEN csharp_methods
  ELSE AppendMethods(DictAppend(csharp_methods, Head(ms).class_name, Head(ms)),
                     Tail(ms))

\* one iteration of the loop of _analyze_csharp_files
CsharpAfter(csharp_methods, f, include_tests) ==
  IF Skipped(f, include_tests) \/ ~f.readable THEN csharp_methods
  ELSE AppendMethods(csharp_methods, CsharpMethodsOf(f))

(***************************************************************************)
(* Matching an HTTP call to a C# method, and the call paths.               *)
(***************************************************************************)
\* [part for part in url.split('/') if part and not part.startswith('{')]
UrlParts(url) ==
  LET Kept(part) == part # <<>> /\ ~StartsWith(part, "{")
  IN  SelectSeq(Split(url, "/"), Kept)

\* any(part.lower() in method_lower for part in url_parts)
MethodMatches(url_parts, method_name) ==
  \E i \in 1..Len(url_parts) :
    Contains(Lower(url_parts[i]), Lower(method_name))

\* _find_matching_csharp_method looking into the methods of every class
IsAnyClass(class_name) == TRUE

\* 'controller' in class_name.lower()
IsController(class_name) == Contains(Lower(wController), Lower(class_name))

\* f"{class_name}.{method.method_name}"
QualifiedName(class_name, method_name) == class_name \o <<".">> \o method_name

\* every "Class.Method" the two loops of _find_matching_csharp_method would
\* return, in the order the loops reach them
MatchingCsharpMethods(csharp_methods, url) ==
  LET url_parts == UrlParts(url)
      Matches(method) == MethodMatches(url_parts, method.method_name)
      OfClass(e) ==
        IF IsController(e.k)
        THEN LET ms == SelectSeq(e.v, Matches)
             IN  [m \in 1..Len(ms) |-> QualifiedName(e.k, ms[m].method_name)]
        ELSE <<>>
  IN  Flatten([c \in 1..Len(csharp_methods) |-> OfClass(csharp_methods[c])])

\* _find_matching_csharp_method: the first match, or None
FindMatchingCsharpMethod(csharp_methods, url, http_method) ==
  LET found == MatchingCsharpMethods(csharp_methods, url)
  IN  IF found = <<>> THEN None ELSE Head(found)

\* f"{service_name}.{method}_{url}"
MappingKey(service_name, http_call) ==
  service_name \o <<".">> \o http_call.method \o <<"_">> \o http_call.url

RECURSIVE MapHttpCalls(_, _, _, _)
MapHttpCalls(service_mappings, service_name, http_calls, csharp_methods) ==
  IF http_calls = <<>> THEN service_mappings
  ELSE
    LET http_call == Head(http_calls)
        csharp_match == FindMatchingCsharpMethod(csharp_methods, http_call.url,
                                                 http_call.method)
    IN  MapHttpCalls(
          IF csharp_match # None
          THEN DictSet(service_mappings, MappingKey(service_name, http_call),
                       csharp_match)
          ELSE service_mappings,
          service_name, Tail(http_calls), csharp_methods)

RECURSIVE MapServices(_, _, _)
MapServices(service_mappings, services, csharp_methods) ==
  IF services = <<>> THEN service_mappings
  ELSE MapServices(
         MapHttpCalls(service_mappings, Head(services).k,
                      Head(services).v.http_calls, csharp_methods),
         Tail(services), csharp_methods)

\* _map_service_calls
MapServiceCalls(service_mappings, angular_services, csharp_methods) ==
  MapServices(service_mappings, angular_services, csharp_methods)

\* _find_indirect_calls tagging its records as _extract_service_calls does
IndirectTagAsDirect == "direct"

\* the call_type _find_indirect_calls gives its records
IndirectTag == "indirect"

\* the ServiceCall _find_indirect_calls builds for one HTTP call of the service
IndirectCall(direct_call, service_info, http_call) ==
  ServiceCall(direct_call.service_name \o <<".">> \o direct_call.method_name,
              http_call.method \o <<" ">> \o http_call.url,
              service_info.file_path, http_call.line_number, IndirectTag)

\* the records a service that is not in angular_services would give, were
\* the lookup not guarded
UnguardedCallsThrough(direct_call, angular_services) ==
  IF DictHas(angular_services, direct_call.service_name)
  THEN LET service_info == DictGet(angular_services, direct_call.service_name)
       IN  [h \in 1..Len(service_info.http_calls) |->
              IndirectCall(direct_call, service_info, service_info.http_calls[h])]
  ELSE <<ServiceCall(direct_call.service_name \o <<".">> \o direct_call.method_name,
                     <<"?">>, direct_call.file_path, direct_call.line_number,
                     IndirectTag)>>

\* the body of the loop of _find_indirect_calls for one direct call
CallsThrough(direct_call, angular_services) ==
  IF DictHas(angular_services, direct_call.service_name)
  THEN LET service_info == DictGet(angular_services, direct_call.service_name)
       IN  [h \in 1..Len(service_info.http_calls) |->
              IndirectCall(direct_call, service_info, service_info.http_calls[h])]
  ELSE <<>>

\* _find_indirect_calls leaving its loop at the first call of a service that
\* is not in angular_services
FindIndirectCallsUntilUnknown(component, angular_services) ==
  LET calls == component.service_calls
      unknown == {d \in 1..Len(calls) :
                    ~DictHas(angular_services, calls[d].service_name)}
      stop == IF unknown = {} THEN Len(calls) + 1
              ELSE CHOOSE d \in unknown : \A e \in unknown : d <= e
  IN  Flatten([d \in 1..(stop - 1) |-> CallsThrough(calls[d], angular_services)])

\* _find_indirect_calls looping over every service of the table, not over
\* the services the component calls
FindIndirectCallsOfAll(component, angular_services) ==
  Flatten([e \in 1..Len(angular_services) |->
             CallsThrough(ServiceCall(angular_services[e].k, <<"*">>,
                                      component.file_path, 0, DirectTag),
                          angular_services)])

\* _find_indirect_calls
FindIndirectCalls(component, angular_services) ==
  Flatten([d \in 1..Len(component.service_calls) |->
             CallsThrough(component.service_calls[d], angular_services)])

\* the dict _get_csharp_mappings appends, with the whole "Class.Method" as the
\* method
MappingOfWholeMatch(class_name, method_name, method, indirect_call) ==
  [csharp_class |-> class_name,
   csharp_method |-> QualifiedName(class_name, method_name),
   file_path |-> method.file_path, line_number |-> method.line_number,
   parameters |-> method.parameters, return_type |-> method.return_type,
   angular_call |-> indirect_call.method_name]

\* the dict _get_csharp_mappings appends
Mapping(class_name, method_name, method, indirect_call) ==
  [csharp_class |-> class_name, csharp_method |-> method_name,
   file_path |-> method.file_path, line_number |-> method.line_number,
   parameters |-> method.parameters, return_type |-> method.return_type,
   angular_call |-> indirect_call.method_name]

\* self.csharp_methods.get(class_name, [])
MethodsOfClass(csharp_methods, class_name) ==
  IF DictHas(csharp_methods, class_name) THEN DictGet(csharp_methods, class_name)
  ELSE <<>>

\* the body of the loop of _get_csharp_mappings for one indirect call
MappingsOf(indirect_call, csharp_methods) ==
  LET method_parts == SplitOnce(indirect_call.method_name, " ") IN
  IF indirect_call.call_type # "indirect" \/ Len(method_parts) # 2 THEN <<>>
  ELSE
    LET csharp_match == FindMatchingCsharpMethod(csharp_methods, method_parts[2],
                                                 method_parts[1])
    IN  IF csharp_match = None THEN <<>>
        ELSE
          LET class_name == SplitOnce(csharp_match, ".")[1]
              method_name == SplitOnce(csharp_match, ".")[2]
              Named(method) == method.method_name = method_name
              named == SelectSeq(MethodsOfClass(csharp_methods, class_name), Named)
          IN  IF named = <<>> THEN <<>>
              ELSE <<Mapping(class_name, method_name, Head(named), indirect_call)>>

\* _get_csharp_mappings
GetCsharpMappings(component, csharp_methods) ==
  Flatten([i \in 1..Len(component.indirect_calls) |->
             MappingsOf(component.indirect_calls[i], csharp_methods)])

\* component.indirect_calls = self._find_indirect_calls(component)
WithIndirectCalls(component, angular_services) ==
  [component EXCEPT !.indirect_calls = FindIndirectCalls(component, angular_services)]

\* results['components'][component_name]
ComponentResult(component, csharp_methods) ==
  [file_path |-> component.file_path,
   template_path |-> component.template_path,
   direct_calls |-> component.service_calls,
   indirect_calls |-> component.indirect_calls,
   csharp_mappings |-> GetCsharpMappings(component, csharp_methods)]

\* self.angular_components once _build_call_mappings has returned
ComponentsBuilt(angular_components, angular_services) ==
  [i \in 1..Len(angular_components) |->
     [k |-> angular_components[i].k,
      v |-> WithIndirectCalls(angular_components[i].v, angular_services)]]

\* _build_call_mappings: the results
BuildCallMappings(angular_components, angular_services, csharp_methods) ==
  LET built == ComponentsBuilt(angular_components, angular_services)
  IN  [components |->
         [i \in 1..Len(built) |->
            [k |-> built[i].k, v |-> ComponentResult(built[i].v, csharp_methods)]],
       summary |->
         [total_components |-> Len(angular_components),
          total_services |-> Len(angular_services),
          total_csharp_classes |-> Len(csharp_methods)]]

\* what analyze() has to return before it has run
NoResults ==
  [components |-> <<>>,
   summary |-> [total_components |-> 0, total_services |-> 0,
                total_csharp_classes |-> 0]]

(***************************************************************************)
(* The run of analyze().                                                   *)
(***************************************************************************)
VARIABLES
  files,               \* the files below angular_path and csharp_path
  max_depth,           \* self.max_depth
  include_tests,       \* self.include_tests
  angular_components,  \* self.angular_components
  angular_services,    \* self.angular_services
  csharp_methods,      \* self.csharp_methods
  service_mappings,    \* self.service_mappings
  results,             \* what _build_call_mappings returns
  warnings,            \* the files a warning was logged for
  pc,                  \* the step of analyze() that runs next
  pending,             \* the files the running rglob has not yet yielded
  discovered,          \* the files the scans have yielded, in that order
  exists,              \* os.path.exists of args.angular_path, args.csharp_path
  returned             \* what main() has returned and where, None while it runs

vars ==
  <<files, max_depth, include_tests, angular_components, angular_services,
    csharp_methods, service_mappings, results, warnings, pc, pending,
    discovered, exists, returned>>

\* Path.rglob: the files of one kind, in an order the file system decides
Rglob(tree, kind) == {f \in tree : f.kind = kind}

\* CodeAnalyzer.__init__, over the project trees and the command lines
Init ==
  /\ files \in {tree \in SUBSET Pool : Cardinality(tree) <= MaxFiles}
  /\ max_depth \in 0..MaxDepth
  /\ include_tests \in BOOLEAN
  /\ angular_components = <<>>
  /\ angular_services = <<>>
  /\ csharp_methods = <<>>
  /\ service_mappings = <<>>
  /\ results = NoResults
  /\ warnings = <<>>
  /\ pc = "components"
  /\ pending = Rglob(files, "component")
  /\ discovered = <<>>
  /\ exists = [angular_path |-> TRUE, csharp_path |-> TRUE]
  /\ returned = None

\* the warnings were the except clauses to pass without logging
NoWarningAfter(f) == warnings

\* the warnings after the try block has run on f
WarningsAfter(f) ==
  IF ~Skipped(f, include_tests) /\ ~f.readable THEN Append(warnings, f.path)
  ELSE warnings

\* one iteration of the loop of _analyze_angular_components
AnalyzeAngularComponent(f) ==
  /\ pc = "components"
  /\ f \in pending
  /\ angular_components' = ComponentsAfter(angular_components, f, include_tests)
  /\ warnings' = WarningsAfter(f)
  /\ pending' = pending \ {f}
  /\ discovered' = Append(discovered, f)
  /\ UNCHANGED <<exists, returned, files, max_depth, include_tests,
                 angular_services,
                 csharp_methods, service_mappings, results, pc>>

\* _analyze_angular_components returns, _analyze_angular_services starts
StartAngularServices ==
  /\ pc = "components"
  /\ pending = {}
  /\ pc' = "services"
  /\ pending' = Rglob(files, "service")
  /\ UNCHANGED <<exists, returned, files, max_depth, include_tests,
                 angular_components,
                 angular_services, csharp_methods, service_mappings, results,
                 warnings, discovered>>

\* one iteration of the loop of _analyze_angular_services
AnalyzeAngularService(f) ==
  /\ pc = "services"
  /\ f \in pending
  /\ angular_services' = ServicesAfter(angular_services, f, include_tests)
  /\ warnings' = WarningsAfter(f)
  /\ pending' = pending \ {f}
  /\ discovered' = Append(discovered, f)
  /\ UNCHANGED <<exists, returned, files, max_depth, include_tests,
                 angular_components,
                 csharp_methods, service_mappings, results, pc>>

\* _analyze_angular_services returns, _analyze_csharp_files starts
StartCsharpFiles ==
  /\ pc = "services"
  /\ pending = {}
  /\ pc' = "csharp"
  /\ pending' = Rglob(files, "csharp")
  /\ UNCHANGED <<exists, returned, files, max_depth, include_tests,
                 angular_components,
                 angular_services, csharp_methods, service_mappings, results,
                 warnings, discovered>>

\* one iteration of the loop of _analyze_csharp_files
AnalyzeCsharpFile(f) ==
  /\ pc = "csharp"
  /\ f \in pending
  /\ csharp_methods' = CsharpAfter(csharp_methods, f, include_tests)
  /\ warnings' = WarningsAfter(f)
  /\ pending' = pending \ {f}
  /\ discovered' = Append(discovered, f)
  /\ UNCHANGED <<exists, returned, files, max_depth, include_tests,
                 angular_components,
                 angular_services, service_mappings, results, pc>>

\* _analyze_csharp_files returns, then _map_service_calls runs
MapServiceCallsStep ==
  /\ pc = "csharp"
  /\ pending = {}
  /\ service_mappings' =
       MapServiceCalls(service_mappings, angular_services, csharp_methods)
  /\ pc' = "build"
  /\ UNCHANGED <<exists, returned, files, max_depth, include_tests,
                 angular_components,
                 angular_services, csharp_methods, results, warnings, pending,
                 discovered>>

\* _build_call_mappings runs and analyze() returns its results
BuildCallMappingsStep ==
  /\ pc = "build"
  /\ angular_components' = ComponentsBuilt(angular_components, angular_services)
  /\ results' =
       BuildCallMappings(angular_components, angular_services, csharp_methods)
  /\ pc' = "done"
  /\ UNCHANGED <<exists, returned, files, max_depth, include_tests,
                 angular_services,
                 csharp_methods, service_mappings, warnings, pending,
                 discovered>>

Next ==
  \/ \E f \in Pool : AnalyzeAngularComponent(f)
  \/ StartAngularServices
  \/ \E f \in Pool : AnalyzeAngularService(f)
  \/ StartCsharpFiles
  \/ \E f \in Pool : AnalyzeCsharpFile(f)
  \/ MapServiceCallsStep
  \/ BuildCallMappingsStep

Spec == Init /\ [][Next]_vars

(***************************************************************************)
(* main(): the checks of the two roots, analyze(), the output.             *)
(***************************************************************************)
\* a return statement of main(): the status it returns and its line
Return(status, line) == <<[status |-> status, line |-> line]>>

\* "Validate paths" checking args.angular_path only
AngularPathCheck(exist) ==
  IF ~exist.angular_path THEN Return(1, 808) ELSE None

\* "Validate paths": the return statement a missing root leads to, or None
PathCheck(exist) ==
  IF ~exist.angular_path THEN Return(1, 808)
  ELSE IF ~exist.csharp_path THEN Return(1, 812)
  ELSE None

\* main() is called: nothing is extracted, the roots exist or do not
InitMain ==
  /\ files \in {tree \in SUBSET MainPool : Cardinality(tree) <= MaxFiles}
  /\ max_depth \in 0..MaxDepth
  /\ include_tests \in BOOLEAN
  /\ exists \in [angular_path : BOOLEAN, csharp_path : BOOLEAN]
  /\ angular_components = <<>>
  /\ angular_services = <<>>
  /\ csharp_methods = <<>>
  /\ service_mappings = <<>>
  /\ results = NoResults
  /\ warnings = <<>>
  /\ pc = "main"
  /\ pending = {}
  /\ discovered = <<>>
  /\ returned = None

\* main() up to analyzer.analyze(): a missing root ends the run, else the
\* analyzer is created and _analyze_angular_components starts
ValidatePaths ==
  /\ pc = "main"
  /\ returned' = PathCheck(exists)
  /\ pc' = IF returned' = None THEN "components" ELSE "returned"
  /\ pending' = IF returned' = None THEN Rglob(files, "component") ELSE {}
  /\ UNCHANGED <<exists, files, max_depth, include_tests, angular_components,
                 angular_services, csharp_methods, service_mappings, results,
                 warnings, discovered>>

\* OutputGenerator(results, args.output_dir) and generate_all: main() returns
\* 0, or 1 from its except clause when the output cannot be written
GenerateOutput(raised) ==
  /\ pc = "done"
  /\ returned = None
  /\ returned' = IF raised THEN Return(1, 844) ELSE Return(0, 837)
  /\ pc' = "returned"
  /\ UNCHANGED <<exists, files, max_depth, include_tests, angular_components,
                 angular_services, csharp_methods, service_mappings, results,
                 warnings, pending, discovered>>

NextMain ==
  \/ ValidatePaths
  \/ \E f \in MainPool : AnalyzeAngularComponent(f)
  \/ StartAngularServices
  \/ \E f \in MainPool : AnalyzeAngularService(f)
  \/ StartCsharpFiles
  \/ \E f \in MainPool : AnalyzeCsharpFile(f)
  \/ MapServiceCallsStep
  \/ BuildCallMappingsStep
  \/ \E raised \in BOOLEAN : GenerateOutput(raised)

MainSpec == InitMain /\ [][NextMain]_vars

(***************************************************************************)
(* analyze() as a function of the order in which the scans yield the files *)
(***************************************************************************)
RECURSIVE ScanComponents(_, _, _)
ScanComponents(acc, order, it) ==
  IF order = <<>> THEN acc
  ELSE ScanComponents(
         IF Head(order).kind = "component"
         THEN ComponentsAfter(acc, Head(order), it) ELSE acc,
         Tail(order), it)

RECURSIVE ScanServices(_, _, _)
ScanServices(acc, order, it) ==
  IF order = <<>> THEN acc
  ELSE ScanServices(
         IF Head(order).kind = "service"
         THEN ServicesAfter(acc, Head(order), it) ELSE acc,
         Tail(order), it)

RECURSIVE ScanCsharp(_, _, _)
ScanCsharp(acc, order, it) ==
  IF order = <<>> THEN acc
  ELSE ScanCsharp(
         IF Head(order).kind = "csharp"
         THEN CsharpAfter(acc, Head(order), it) ELSE acc,
         Tail(order), it)

\* the results of analyze() when each rglob yields its files in their order
\* in the sequence order
Analyze(order, it) ==
  BuildCallMappings(ScanComponents(<<>>, order, it),
                    ScanServices(<<>>, order, it),
                    ScanCsharp(<<>>, order, it))

(***************************************************************************)
(* What the properties speak of.                                           *)
(***************************************************************************)
Done == pc = "done"

\* 1 when the record ends in an HTTP call "VERB url", else 0
NetworkHops(call) == IF Len(SplitOnce(call.method_name, " ")) = 2 THEN 1 ELSE 0

\* the invocations of a collaborator's method the record goes through: a
\* record that ends in an HTTP call names them in service_name, "Service.method";
\* any other record is one invocation, of service_name's method_name
CollaboratorHops(call) ==
  IF NetworkHops(call) = 1 THEN Len(Split(call.service_name, ".")) - 1 ELSE 1

\* the depth of a path
Depth(call) == CollaboratorHops(call)

\* the sum of f[i] over 1..n
RECURSIVE SumTo(_, _)
SumTo(f, n) == IF n = 0 THEN 0 ELSE f[n] + SumTo(f, n - 1)

\* the file was read and its entities were extracted
Extracted(f) == ~Skipped(f, include_tests) /\ f.readable

\* the entry of a component in the results
ResultOf(name) == DictGet(results.components, name)

\* the paths of every component of the results satisfy P
AllIndirectCalls(P(_)) ==
  \A i \in 1..Len(results.components) :
    \A j \in 1..Len(results.components[i].v.indirect_calls) :
      P(results.components[i].v.indirect_calls[j])

(***************************************************************************)
(* C1.  The end-to-end scenario.                                           *)
(***************************************************************************)
\* the tree holds OrderScreen, which invokes OrderService.submit, the service
\* OrderService, which posts to /orders, and OrdersController, whose only
\* operation is Create
EndToEndScenario ==
  files = {OrderScreenFile, OrderServiceFile, OrdersControllerFile}

PostOrders == Upper(VerbPost) \o <<" ">> \o UrlOrders

\* C1: in the end-to-end scenario analyze() yields for OrderScreen exactly one
\* indirect path, of depth 1, OrderScreen -> OrderService.submit ->
\* POST /orders, and exactly one C# mapping, to OrdersController.Create.
C1_EndToEndIndirectPath ==
  (Done /\ EndToEndScenario) =>
    /\ DictHas(results.components, N("OrderScreen"))
    /\ LET r == ResultOf(N("OrderScreen")) IN
         /\ Len(r.indirect_calls) = 1
         /\ r.indirect_calls[1].service_name = <<"OrderService", ".", "submit">>
         /\ r.indirect_calls[1].method_name = PostOrders
         /\ Depth(r.indirect_calls[1]) = 1
         /\ Len(r.csharp_mappings) = 1
         /\ r.csharp_mappings[1].csharp_class = OrdersController
         /\ r.csharp_mappings[1].csharp_method = Create

(***************************************************************************)
(* C2.  The depth of a path and max_depth.                                 *)
(***************************************************************************)
\* C2: no path of the results has a depth greater than max_depth.
C2_DepthWithinMaxDepth ==
  LET Within(call) == Depth(call) <= max_depth
  IN  AllIndirectCalls(Within)

(***************************************************************************)
(* C3.  max_depth = 0.                                                     *)
(***************************************************************************)
\* C3: with max_depth = 0 the results hold no indirect path and no mapping
\* for any component, and the direct calls are the calls extracted from the
\* component, as with any other max_depth.
C3_ZeroDepthSuppressesIndirect ==
  (Done /\ max_depth = 0) =>
    \A i \in 1..Len(results.components) :
      LET r == results.components[i].v IN
        /\ r.indirect_calls = <<>>
        /\ r.csharp_mappings = <<>>
        /\ r.direct_calls =
             DictGet(angular_components, results.components[i].k).service_calls

(***************************************************************************)
(* C4.  Two entities that invoke each other.                               *)
(***************************************************************************)
\* component a invokes collaborator b and nothing else
OnlyInvokes(a, b) ==
  /\ DictHas(angular_components, a)
  /\ DictGet(angular_components, a).service_calls # <<>>
  /\ \A j \in 1..Len(DictGet(angular_components, a).service_calls) :
       DictGet(angular_components, a).service_calls[j].service_name = b

\* the entity named a issues no HTTP call
NoNetworkCalls(a) ==
  DictHas(angular_services, a) => DictGet(angular_services, a).http_calls = <<>>

MutualInvocation(a, b) ==
  /\ a # b
  /\ OnlyInvokes(a, b)
  /\ OnlyInvokes(b, a)
  /\ NoNetworkCalls(a)
  /\ NoNetworkCalls(b)

\* the guards of the steps of analyze(): a scan has a file to yield or has
\* yielded them all, or the tables are complete and the paths can be built
StepPossible ==
  \/ /\ pc \in {"components", "services", "csharp"}
     /\ pending = {} \/ \E f \in Pool : f \in pending
  \/ pc = "build"

\* C4: the run never stops before analyze() has returned, and when it has,
\* two components that invoke each other and issue no HTTP call both have an
\* empty list of indirect paths and an empty list of mappings.
C4_CycleSafety ==
  /\ Done \/ StepPossible
  /\ Done =>
       \A a, b \in DictKeys(angular_components) :
         MutualInvocation(a, b) =>
           /\ DictHas(results.components, a)
           /\ ResultOf(a).indirect_calls = <<>>
           /\ ResultOf(a).csharp_mappings = <<>>
           /\ DictGet(angular_components, a).indirect_calls = <<>>

\* analyze() has returned for a tree in which A and B invoke each other
C4_Witness ==
  /\ Done
  /\ MutualInvocation(N("A"), N("B"))
  /\ DictHas(angular_services, N("B"))

(***************************************************************************)
(* C5.  The mappings end at methods of the table.                          *)
(***************************************************************************)
\* the table of C# methods records method_name under class_name
Recorded(class_name, method_name) ==
  /\ DictHas(csharp_methods, class_name)
  /\ \E j \in 1..Len(DictGet(csharp_methods, class_name)) :
       DictGet(csharp_methods, class_name)[j].method_name = method_name

\* C5: every entry of csharp_mappings names a class that is a key of
\* csharp_methods and a method recorded under that class.
C5_MappingsEndInTable ==
  \A i \in 1..Len(results.components) :
    \A j \in 1..Len(results.components[i].v.csharp_mappings) :
      Recorded(results.components[i].v.csharp_mappings[j].csharp_class,
               results.components[i].v.csharp_mappings[j].csharp_method)

\* analyze() has returned a mapping
C5_Witness ==
  /\ Done
  /\ \E i \in 1..Len(results.components) :
       results.components[i].v.csharp_mappings # <<>>

(***************************************************************************)
(* C6.  The order in which the files are discovered.                       *)
(***************************************************************************)
\* the names of the entities a file declares
DeclaredNames(f) ==
  IF f.kind = "csharp"
  THEN {ExtractCsharpClasses(f)[c].name : c \in 1..Len(ExtractCsharpClasses(f))}
  ELSE {ExtractName(f)}

\* no two files of a layer declare an entity of the same name
DistinctNames(tree) ==
  \A f, g \in tree :
    (f # g /\ f.kind = g.kind) => DeclaredNames(f) \cap DeclaredNames(g) = {}

\* the orders in which the scans can yield the files of the tree
DiscoveryOrders(tree) ==
  {order \in [1..Cardinality(tree) -> tree] :
     \A i, j \in 1..Cardinality(tree) : i # j => order[i] # order[j]}

\* two results hold the same paths and the same mappings for every component
SamePaths(res1, res2) ==
  /\ DictKeys(res1.components) = DictKeys(res2.components)
  /\ \A name \in DictKeys(res1.components) :
       /\ DictGet(res1.components, name).indirect_calls =
            DictGet(res2.components, name).indirect_calls
       /\ DictGet(res1.components, name).csharp_mappings =
            DictGet(res2.components, name).csharp_mappings

\* C6: when the files declare pairwise distinct entity names, the paths and
\* mappings of the results are those of every other discovery order of the
\* same files.
C6_DiscoveryOrderIrrelevant ==
  (Done /\ DistinctNames(files)) =>
    \A order \in DiscoveryOrders(files) :
      SamePaths(Analyze(order, include_tests), results)

(***************************************************************************)
(* C7.  Two files that declare an entity of the same name.                 *)
(***************************************************************************)
\* the files of a layer that the scans have yielded and extracted so far, in
\* the order of their discovery
ExtractedFiles(kind) ==
  LET Is(f) == f.kind = kind /\ Extracted(f)
  IN  SelectSeq(discovered, Is)

\* the last extracted file of the layer that declares name
LastDeclaring(kind, name) ==
  LET fs == ExtractedFiles(kind)
      last == CHOOSE i \in 1..Len(fs) :
                /\ name \in DeclaredNames(fs[i])
                /\ \A j \in (i + 1)..Len(fs) : name \notin DeclaredNames(fs[j])
  IN  fs[last]

\* the methods a file records under class_name
MethodsDeclared(f, class_name) ==
  LET Of(m) == m.class_name = class_name
  IN  SelectSeq(CsharpMethodsOf(f), Of)

\* the table of components holds, under each name, the data of the last file
\* that declares it
ComponentsLastWriteWins ==
  \A i \in 1..Len(angular_components) :
    LET e == angular_components[i]
        f == LastDeclaring("component", e.k)
    IN  /\ e.v.component_name = e.k
        /\ e.v.file_path = f.path
        /\ e.v.template_path = FindTemplatePath(f)
        /\ e.v.service_calls = ExtractServiceCalls(f)

\* the table of services holds, under each name, the data of the last file
\* that declares it
ServicesLastWriteWins ==
  \A i \in 1..Len(angular_services) :
    angular_services[i].v =
      ServiceInfo(LastDeclaring("service", angular_services[i].k))

\* the table of C# methods holds, under each class, the methods of the last
\* file that declares it
CsharpLastWriteWins ==
  \A i \in 1..Len(csharp_methods) :
    csharp_methods[i].v =
      MethodsDeclared(LastDeclaring("csharp", csharp_methods[i].k),
                      csharp_methods[i].k)

\* the table of C# methods holds, under each class, the methods of every file
\* that declares it, in the order of discovery
CsharpAccumulates ==
  \A i \in 1..Len(csharp_methods) :
    LET fs == ExtractedFiles("csharp")
    IN  csharp_methods[i].v =
          Flatten([j \in 1..Len(fs) |-> MethodsDeclared(fs[j], csharp_methods[i].k)])

MatchingOperations(url) ==
  LET OfClass(e) ==
        LET Matches(method) == MethodMatches(UrlParts(url), method.method_name)
        IN  Len(SelectSeq(e.v, Matches))
  IN  SumTo([c \in 1..Len(csharp_methods) |-> OfClass(csharp_methods[c])],
            Len(csharp_methods))

\* the url of the HTTP call an indirect call ends in
UrlOf(indirect_call) == SplitOnce(indirect_call.method_name, " ")[2]

\* C8: the results hold, for every HTTP call reached through a collaborator,
\* one mapping for each backend operation that matches the call.
C8_OneMappingPerMatch ==
  \A i \in 1..Len(results.components) :
    LET r == results.components[i].v IN
      Len(r.csharp_mappings) =
        SumTo([j \in 1..Len(r.indirect_calls) |->
                 MatchingOperations(UrlOf(r.indirect_calls[j]))],
              Len(r.indirect_calls))

(***************************************************************************)
(* C9.  Matching is symmetric.                                             *)
(***************************************************************************)
\* matches(a, b): the test of _find_matching_csharp_method, a the path
RouteMatches(a, b) == MethodMatches(UrlParts(a), b)

\* the urls of the HTTP calls of the services, and their parts
KnownPaths ==
  LET UrlsOf(info) == {info.http_calls[j].url : j \in 1..Len(info.http_calls)}
      urls == UNION {UrlsOf(angular_services[i].v) : i \in 1..Len(angular_services)}
  IN  urls \cup UNION {{UrlParts(u)[k] : k \in 1..Len(UrlParts(u))} : u \in urls}

\* the names of the methods of the backend classes
KnownOperations ==
  UNION {{csharp_methods[i].v[j].method_name : j \in 1..Len(csharp_methods[i].v)} :
           i \in 1..Len(csharp_methods)}

\* C9: for the paths and the operation names of the tables, a matches b
\* exactly when b matches a.
C9_MatchingSymmetric ==
  \A a \in KnownPaths, b \in KnownOperations :
    RouteMatches(a, b) = RouteMatches(b, a)

(***************************************************************************)
(* C10.  The tag of a record.                                              *)
(***************************************************************************)
\* every call record of the results satisfies P
AllRecords(P(_)) ==
  \A i \in 1..Len(results.components) :
    /\ \A j \in 1..Len(results.components[i].v.direct_calls) :
         P(results.components[i].v.direct_calls[j])
    /\ \A j \in 1..Len(results.components[i].v.indirect_calls) :
         P(results.components[i].v.indirect_calls[j])

Tables == <<angular_components, angular_services, csharp_methods>>

\* the open() or read() of f raises in the try block of its scan
Unreadable(f) == ~Skipped(f, include_tests) /\ ~f.readable

\* the three scans have yielded every file of the trees
ScansOver ==
  \/ pc \in {"build", "done"}
  \/ pc = "returned" /\ PathCheck(exists) = None

\* the table of the kind of f holds what the scan extracts from f
InTables(f) ==
  CASE f.kind = "component" ->
         /\ DictHas(angular_components, ExtractName(f))
         /\ DictGet(angular_components, ExtractName(f)).file_path = f.path
    [] f.kind = "service" ->
         /\ DictHas(angular_services, ExtractName(f))
         /\ DictGet(angular_services, ExtractName(f)).file_path = f.path
    [] f.kind = "csharp" ->
         \A m \in 1..Len(CsharpMethodsOf(f)) :
           /\ DictHas(csharp_methods, CsharpMethodsOf(f)[m].class_name)
           /\ \E j \in 1..Len(DictGet(csharp_methods,
                                      CsharpMethodsOf(f)[m].class_name)) :
                DictGet(csharp_methods, CsharpMethodsOf(f)[m].class_name)[j]
                  = CsharpMethodsOf(f)[m]

\* the paths of the files of order that cannot be read, in that order
RECURSIVE UnreadablePaths(_)
UnreadablePaths(order) ==
  IF order = <<>> THEN <<>>
  ELSE (IF Unreadable(Head(order)) THEN <<Head(order).path>> ELSE <<>>)
         \o UnreadablePaths(Tail(order))

\* a step in which a scan yields f, which cannot be read: one warning is
\* logged, the tables stay as they were, the scan keeps its other files
SkipsUnreadable(f) ==
  (discovered' = Append(discovered, f) /\ Unreadable(f)) =>
    /\ UNCHANGED Tables
    /\ warnings' = Append(warnings, f.path)
    /\ pending' = pending \ {f}
    /\ pc' = pc

\* C11: a file that cannot be read, in any of the three scans, is skipped: the
\* step that yields it logs one warning and leaves the three tables as they
\* were, the warnings name exactly the unreadable files yielded so far, and
\* when the scans are over every file was yielded and every file that was
\* read has its entities in the tables.
C11_UnreadableFileSkipped ==
  /\ [][\A f \in files : SkipsUnreadable(f)]_vars
  /\ [](warnings = UnreadablePaths(discovered))
  /\ [](ScansOver =>
          /\ {discovered[i] : i \in 1..Len(discovered)} = files
          /\ \A f \in files : Extracted(f) => InTables(f))

\* each of the three scans has met a file it could not read, and the
\* component scan has extracted OrderScreen after the unreadable component
C11_Witness ==
  /\ ScansOver
  /\ {LockedComponentFile, LockedServiceFile, BinaryCsFile} \subseteq files
  /\ Len(warnings) = 3
  /\ \E i, j \in 1..Len(discovered) :
       /\ i < j
       /\ discovered[i] = LockedComponentFile
       /\ discovered[j] = OrderScreenFile
  /\ InTables(OrderScreenFile)

(***************************************************************************)
(* C12.  The runs of main() that end in failure.                           *)
(***************************************************************************)
\* main() has returned status from the return statement at one of lines
Returned(status, lines) ==
  /\ returned # None
  /\ returned[1].status = status
  /\ returned[1].line \in lines

\* nothing was extracted: no file was yielded, the tables and results are empty
NothingExtracted ==
  /\ discovered = <<>>
  /\ warnings = <<>>
  /\ Tables = <<None, None, None>>
  /\ results = NoResults

\* analyze() ran to its end: every file was yielded, the results were built
AnalyzeReturned ==
  /\ {discovered[i] : i \in 1..Len(discovered)} = files
  /\ results =
       BuildCallMappings(angular_components, angular_services, csharp_methods)

\* C12 as claimed: main() returns a failure status only from the checks of the
\* two roots, before the analyzer is created and any file is extracted.
C12_FailureOnlyFromRootChecks ==
  Returned(1, {808, 812, 844}) => Returned(1, {808, 812}) /\ NothingExtracted

\* C12: main() returns a failure status either from the checks of the two
\* roots, when one of them does not exist and nothing was extracted, or from
\* its except clause, when both roots exist, analyze() has returned and the
\* output could not be written; it returns success only when both roots exist
\* and analyze() has returned.
C12_FailureFromRootChecksOrOutput ==
  /\ Returned(1, {808, 812, 844}) =>
       \/ /\ Returned(1, {808, 812})
          /\ ~(exists.angular_path /\ exists.csharp_path)
          /\ NothingExtracted
       \/ /\ Returned(1, {844})
          /\ exists.angular_path /\ exists.csharp_path
          /\ AnalyzeReturned
  /\ Returned(0, {837}) =>
       /\ exists.angular_path /\ exists.csharp_path
       /\ AnalyzeReturned
  /\ returned # None => returned[1].status \in {0, 1}

\* main() has returned 1 from its except clause after OrderScreen was extracted
C12_Witness ==
  /\ Returned(1, {844})
  /\ InTables(OrderScreenFile)
  /\ DictHas(results.components, N("OrderScreen"))

(***************************************************************************)
(* C13.  A component that calls nothing.                                   *)
(***************************************************************************)
\* the entry of the results calls no collaborator; a component file is never
\* searched for HTTP calls, so it has no network call either
CallsNothing(entry) == entry.direct_calls = <<>>

\* C13: a component of the results with no call at all has no indirect call
\* and no backend mapping, whatever services and C# classes the tables hold.
C13_NoCallNoPath ==
  \A i \in 1..Len(results.components) :
    CallsNothing(results.components[i].v) =>
      /\ results.components[i].v.indirect_calls = <<>>
      /\ results.components[i].v.csharp_mappings = <<>>

\* analyze() has returned for Idle, which calls nothing, next to OrderScreen,
\* which has paths through OrderService
C13_Witness ==
  /\ pc \in {"done", "returned"}
  /\ DictHas(results.components, N("Idle"))
  /\ CallsNothing(ResultOf(N("Idle")))
  /\ DictHas(angular_services, N("OrderService"))
  /\ DictGet(angular_services, N("OrderService")).http_calls # <<>>
  /\ DictHas(results.components, N("OrderScreen"))
  /\ ResultOf(N("OrderScreen")).indirect_calls # <<>>

(***************************************************************************)
(* C14.  A call of a collaborator that is not in the service table.        *)
(***************************************************************************)
\* the collaborator of the direct call is a key of angular_services
Resolves(direct_call) == DictHas(angular_services, direct_call.service_name)

\* the paths through the collaborators of calls, all of which resolve: one
\* for each HTTP call of the collaborator, in the order of the calls
PathsThrough(calls) ==
  Flatten([d \in 1..Len(calls) |->
    LET service_info == DictGet(angular_services, calls[d].service_name)
    IN  [h \in 1..Len(service_info.http_calls) |->
           IndirectCall(calls[d], service_info, service_info.http_calls[h])]])

\* the collaborator an indirect call goes through
Collaborator(service_name) == Split(service_name, ".")[1]

\* C14: the indirect calls and the mappings of a component are those of its
\* direct calls whose collaborator is in the service table, as if the other
\* direct calls were not there: a call of an unknown collaborator adds no
\* indirect call and no mapping and takes none away, and analyze() still
\* returns an entry for every component.
C14_UnknownCollaboratorEndsBranch ==
  /\ pc \in {"done", "returned"} /\ PathCheck(exists) = None =>
       DictKeys(results.components) = DictKeys(angular_components)
  /\ \A i \in 1..Len(results.components) :
       LET entry == results.components[i].v
           paths == PathsThrough(SelectSeq(entry.direct_calls, Resolves))
       IN  /\ entry.indirect_calls = paths
           /\ entry.csharp_mappings =
                GetCsharpMappings([indirect_calls |-> paths], csharp_methods)
           /\ \A j \in 1..Len(entry.indirect_calls) :
                DictHas(angular_services,
                        Collaborator(entry.indirect_calls[j].service_name))

\* analyze() has returned for Checkout, which calls Ghost, a collaborator that
\* is in no table, before it calls OrderService, and has mappings through
\* OrderService
C14_Witness ==
  /\ pc \in {"done", "returned"}
  /\ DictHas(results.components, N("Checkout"))
  /\ ~Resolves(ResultOf(N("Checkout")).direct_calls[1])
  /\ \E d \in 2..Len(ResultOf(N("Checkout")).direct_calls) :
       Resolves(ResultOf(N("Checkout")).direct_calls[d])
  /\ ResultOf(N("Checkout")).indirect_calls # <<>>
  /\ ResultOf(N("Checkout")).csharp_mappings # <<>>

(***************************************************************************)
(* C15.  A class whose opening brace is on a later line.                   *)
(***************************************************************************)
\* the braces open after lines from..to, counted from nothing open
OpenBraces(lines, from, to) ==
  SumTo([k \in 1..(to - from + 1) |->
           lines[from + k - 1].opens - lines[from + k - 1].closes],
        to - from + 1)

\* the first line from c on that opens a brace, 0 when there is none
OpeningLine(lines, c) ==
  LET opening == {i \in c..Len(lines) : lines[i].opens > 0}
  IN  IF opening = {} THEN 0
      ELSE CHOOSE i \in opening : \A j \in opening : i <= j

\* the line of the brace that matches the one opened on line o, Len(lines)
\* when it is never closed
ClosingLine(lines, o) ==
  LET closing == {i \in o..Len(lines) : OpenBraces(lines, o, i) = 0}
  IN  IF closing = {} THEN Len(lines)
      ELSE CHOOSE i \in closing : \A j \in closing : i <= j

\* the lines between the opening brace of the class declared on line c and
\* its matching closing brace that declare a method
MethodLines(lines, c) ==
  LET o == OpeningLine(lines, c) IN
  IF o = 0 THEN {}
  ELSE {i \in o..ClosingLine(lines, o) :
          /\ ~lines[i].skip
          /\ lines[i].meth # None
          /\ lines[i].cls = None /\ ~lines[i].kw
          /\ lines[i].meth # lines[c].cls
          /\ lines[i].meth \notin ControlKeywords}

\* the file has been yielded by the scan of the C# files
Scanned(f) == \E i \in 1..Len(discovered) : discovered[i] = f

\* C15: once a C# file is extracted, for each class of it whose declaration
\* line opens no brace, every method declared between the class's opening
\* brace and the matching closing brace is in csharp_methods under that class.
C15_MethodsOfLaterBraceClassRecorded ==
  \A f \in Rglob(files, "csharp") :
    Scanned(f) /\ Extracted(f) =>
      \A c \in 1..Len(f.lines) :
        ~f.lines[c].skip /\ f.lines[c].cls # None /\ f.lines[c].opens = 0 =>
          \A i \in MethodLines(f.lines, c) :
            /\ DictHas(csharp_methods, f.lines[c].cls)
            /\ \E j \in 1..Len(DictGet(csharp_methods, f.lines[c].cls)) :
                 /\ DictGet(csharp_methods, f.lines[c].cls)[j].method_name
                      = f.lines[i].meth
                 /\ DictGet(csharp_methods, f.lines[c].cls)[j].file_path = f.path
                 /\ DictGet(csharp_methods, f.lines[c].cls)[j].line_number = i

(***************************************************************************)
(* C16.  One record for each call site of an injected service.             *)
(***************************************************************************)
\* the call sites on line line_num of the component file f whose variable is
\* one of the services injected into the component
InjectedCallSites(f, line_num) ==
  LET OfInjected(site) == DictHas(FindInjectedServices(f), site.var)
  IN  SelectSeq(f.lines[line_num], OfInjected)

\* the ServiceCall records of the component that name line line_num
RecordsOfLine(component, line_num) ==
  LET OfLine(call) == call.line_number = line_num
  IN  SelectSeq(component.service_calls, OfLine)

\* the table entry under the name f declares was extracted from f
ComponentFrom(f) ==
  /\ DictHas(angular_components, ExtractName(f))
  /\ DictGet(angular_components, ExtractName(f)).file_path = f.path

\* C16: the component extracted from a file has as many ServiceCall records
\* for a line as the line has call sites of injected services; a line whose
\* only call site is this.<serviceVar>.<method>( has one record, of that
\* service and method.
C16_OneRecordPerCallSite ==
  \A f \in Rglob(files, "component") :
    ComponentFrom(f) =>
      \A line_num \in 1..Len(f.lines) :
        LET sites == InjectedCallSites(f, line_num)
            records ==
              RecordsOfLine(DictGet(angular_components, ExtractName(f)), line_num)
        IN  /\ Len(records) = Len(sites)
            /\ Len(f.lines[line_num]) = 1 /\ Len(sites) = 1 /\ sites[1].this =>
                 /\ records[1].method_name = sites[1].method
                 /\ records[1].service_name =
                      DictGet(FindInjectedServices(f), sites[1].var)

(***************************************************************************)
(* C17.  One record for each HTTP call site.                               *)
(***************************************************************************)
\* the http_calls records of the service that name line line_num
HttpRecordsOfLine(service_info, line_num) ==
  LET OfLine(call) == call.line_number = line_num
  IN  SelectSeq(service_info.http_calls, OfLine)

\* the table entry under the name f declares was extracted from f
ServiceFrom(f) ==
  /\ DictHas(angular_services, ExtractName(f))
  /\ DictGet(angular_services, ExtractName(f)).file_path = f.path

\* C17: the service extracted from a file has, for a line whose only HTTP call
\* site is this.http.<verb>(<quoted url>, exactly one http_calls record of
\* that line: the verb in upper case, the url, the line number.
C17_OneRecordPerHttpSite ==
  \A f \in Rglob(files, "service") :
    ServiceFrom(f) =>
      \A line_num \in 1..Len(f.lines) :
        Len(f.lines[line_num]) = 1 /\ f.lines[line_num][1].this =>
          HttpRecordsOfLine(DictGet(angular_services, ExtractName(f)), line_num)
            = <<[method |-> Upper(f.lines[line_num][1].verb),
                 url |-> f.lines[line_num][1].url,
                 line_number |-> line_num]>>

(***************************************************************************)
(* C18.  Only controllers are matched.                                     *)
(***************************************************************************)
\* the name holds 'controller' at some place, in any case of its letters
NamesController(class_name) ==
  \E i \in 1..Len(class_name) :
    /\ i + Len(wController) - 1 <= Len(class_name)
    /\ Lower(SubSeq(class_name, i, i + Len(wController) - 1))
         = Lower(wController)

\* the HTTP calls of the services of the table
KnownHttpCalls ==
  UNION {{angular_services[i].v.http_calls[j] :
            j \in 1..Len(angular_services[i].v.http_calls)} :
           i \in 1..Len(angular_services)}

\* the class of a "Class.Method" _find_matching_csharp_method returns
ClassOf(csharp_match) == SplitOnce(csharp_match, ".")[1]

\* C18: for every HTTP call of the service table _find_matching_csharp_method
\* returns None or "Class.Method" with a class whose name holds 'controller'
\* (in any case), and so does every entry of service_mappings and every
\* mapping of the results: no method of another class ends a mapping.
C18_OnlyControllersMatched ==
  /\ \A http_call \in KnownHttpCalls :
       LET csharp_match ==
             FindMatchingCsharpMethod(csharp_methods, http_call.url,
                                      http_call.method)
       IN  csharp_match # None => NamesController(ClassOf(csharp_match))
  /\ \A i \in 1..Len(service_mappings) :
       NamesController(ClassOf(service_mappings[i].v))
  /\ \A i \in 1..Len(results.components) :
       \A j \in 1..Len(results.components[i].v.csharp_mappings) :
         NamesController(results.components[i].v.csharp_mappings[j].csharp_class)

\* analyze() has returned mappings for the call of /orders although
\* OrderRepository, the first class of the table, has SaveOrders, whose name
\* holds 'orders'
C18_Witness ==
  /\ Done
  /\ csharp_methods # <<>>
  /\ csharp_methods[1].k = OrderRepository
  /\ Recorded(OrderRepository, SaveOrders)
  /\ MethodMatches(UrlParts(UrlOrders), SaveOrders)
  /\ \E i \in 1..Len(results.components) :
       /\ results.components[i].v.csharp_mappings # <<>>
       /\ \E j \in 1..Len(results.components[i].v.indirect_calls) :
            UrlOf(results.components[i].v.indirect_calls[j]) = UrlOrders

=============================================================================
